---- MODULE Spec2Model ----
(***************************************************************************)
(* A model of api.Run (api.go): the driver lifecycle supervisor.           *)
(*                                                                         *)
(* Goroutines: the main goroutine of Run (signal wait, shutdown abort      *)
(* timer, final select), the supervisor goroutine (outer insert/removal     *)
(* loop), and, per session, a removal watcher and a removal executor with  *)
(* its abort timer.  The caller-supplied event loop callback runs on the   *)
(* supervisor goroutine; its behaviour is unconstrained: it may receive on *)
(* QuitSignal(), return at any time, or never return.                      *)
(***************************************************************************)
EXTENDS Integers, Sequences, FiniteSets, TLC

VARIABLES
    dev,            \* whether the device file exists right now
    signals,        \* chan os.Signal, capacity 1
    startQuit,      \* chan bool, capacity 2 (entries tagged with their sender)
    signalRaised,   \* chan bool, capacity 1
    exit,           \* chan int, capacity 1 (entries tagged with their sender)
    mainPc,         \* position of the goroutine that called Run
    mainTimer,      \* the shutdown abort timer of Run
    ret,            \* value returned by Run (-1: not returned)
    retFrom,        \* which select case made Run return
    supPc,          \* position of the supervisor goroutine
    cur,            \* number of sessions started so far (current session id)
    cbGotQuit,      \* the running callback has received from QuitSignal()
    watcher,        \* per session: position of the removal watcher
    exec,           \* per session: position of the removal executor
    timer,          \* per session: the executor's abort timer
    rmResult,       \* per session: outcome of the removeDriver call
    osExit,         \* os.Exit(1) was called by an abort timer
    device,         \* the device field of the api value the caller configures
    runDevice,      \* the device field of the copy Run was called on
    calls,          \* the arguments of the SetDriver calls so far
    driverAdded,    \* the manager holds a driver for the device (the last
                    \* addDriver was not followed by a successful removeDriver)
    \* history variables
    sigDelivered,   \* OS signals delivered to the process: 0, 1, or 2 for
                    \* two or more
    earlyReturn,    \* some callback returned without receiving quit
    obsAvail,       \* supervisor polls that observed the device present
    obsAbsent,      \* watcher polls that observed the device absent
    rmCalls,        \* per session: removeDriver calls (each follows one
                    \* receive on startQuit and one arming of the timer)
    crossConsumed,  \* some executor consumed the request of another
                    \* session's watcher
    stopIdle,       \* the stop was raised while the supervisor waited for
                    \* an absent device and no session was active
    startedAfterSignal \* a session was started after Run received a signal

vars == <<dev, signals, startQuit, signalRaised, exit, mainPc, mainTimer,
          ret, retFrom, supPc, cur, cbGotQuit, watcher, exec, timer,
          rmResult, osExit, device, runDevice, calls, driverAdded,
          sigDelivered, earlyReturn, obsAvail, obsAbsent,
          rmCalls, crossConsumed, stopIdle, startedAfterSignal>>

cfgVars == <<device, runDevice, calls>>

histVars == <<sigDelivered, earlyReturn, obsAvail, obsAbsent, rmCalls,
              crossConsumed, stopIdle, startedAfterSignal>>

----------------------------------------------------------------------------
\* Bounds of the model

MaxSessions == 2
CountCap == 2
MaxCalls == 4

Sessions == 1..MaxSessions

\* Channel capacities (api.go:157-160)

SignalsCap == 1
StartQuitCap == 2
SignalRaisedCap == 1
ExitCap == 1

DevStates == {"present", "absent"}

\* The device field BuildAPI sets (api.go:109); its value is defined outside
\* this file, and is a non-empty string
defaultDriverName == "defaultDriverName"

\* Arguments of SetDriver
DeviceNames == {"", defaultDriverName, "/dev/ttyUSB1"}

\* Run has not been called yet
NotStarted == "not started"

\* The answers of os.Stat: nil, an error for which os.IsNotExist holds, or
\* another error
StatAnswers == {"ok", "notfound", "error"}

\* What os.Stat(self.device) can answer right now: nil or a not-found error
\* according to the device, or some other error (permission, I/O)
StatResults == IF dev = "present" THEN {"ok", "error"} ELSE {"notfound", "error"}

\* A quit request is tagged with its sender: the watcher of session s is s,
\* the signal handler of Run is FromSignal
FromSignal == 0

Inc(c) == IF c < CountCap THEN c + 1 ELSE c

\* The process is still running and Run has not returned
Alive == ~osExit /\ mainPc # "returned"

----------------------------------------------------------------------------
\* Variant of deviceExists: every error of os.Stat means absent
deviceExists_ErrorsAbsent(stat) == stat = "ok"

\* deviceExists (api.go:200-210), given the answer of os.Stat
deviceExists(stat) ==
    IF stat = "ok" THEN TRUE
    ELSE IF stat = "notfound" THEN FALSE
    ELSE TRUE

\* pollUntilDeviceExistsStateEquals(comparand) can return now: some answer of
\* os.Stat ends its loop (it sleeps a second and tests again otherwise)
pollUntilDeviceExistsStateEquals(comparand) ==
    \E stat \in StatResults : deviceExists(stat) = comparand

\* The channels and goroutines of Run, right after its go statement
InitRun ==
    /\ dev \in DevStates
    /\ signals = <<>>
    /\ startQuit = <<>>
    /\ signalRaised = <<>>
    /\ exit = <<>>
    /\ mainPc = "wait"
    /\ mainTimer = "off"
    /\ ret = -1
    /\ retFrom = "none"
    /\ supPc = "top"
    /\ cur = 0
    /\ cbGotQuit = FALSE
    /\ watcher = [s \in Sessions |-> "none"]
    /\ exec = [s \in Sessions |-> "none"]
    /\ timer = [s \in Sessions |-> "off"]
    /\ rmResult = [s \in Sessions |-> "none"]
    /\ osExit = FALSE
    /\ driverAdded = FALSE
    /\ sigDelivered = 0
    /\ earlyReturn = FALSE
    /\ obsAvail = 0
    /\ obsAbsent = 0
    /\ rmCalls = [s \in Sessions |-> 0]
    /\ crossConsumed = FALSE
    /\ stopIdle = FALSE
    /\ startedAfterSignal = FALSE

\* Run was called on the value BuildAPI returned
Init ==
    /\ InitRun
    /\ device = defaultDriverName
    /\ runDevice = defaultDriverName
    /\ calls = <<>>

\* BuildAPI has returned and Run has not been called
InitConfig ==
    /\ InitRun
    /\ device = defaultDriverName
    /\ runDevice = NotStarted
    /\ calls = <<>>

----------------------------------------------------------------------------
\* Configuration

lifeVars == <<dev, signals, startQuit, signalRaised, exit, mainPc, mainTimer,
              ret, retFrom, supPc, cur, cbGotQuit, watcher, exec, timer,
              rmResult, osExit, driverAdded>>

\* SetDriver(d) on the caller's value: the receiver is a copy, the modified
\* copy is returned and the caller goes on with it
SetDriver(d) ==
    /\ Len(calls) < MaxCalls
    /\ device' = IF d # "" THEN d ELSE device
    /\ calls' = Append(calls, d)
    /\ UNCHANGED runDevice
    /\ UNCHANGED lifeVars
    /\ UNCHANGED histVars

\* Run(loop) is called on the caller's value: the receiver is a copy
RunCall ==
    /\ runDevice = NotStarted
    /\ runDevice' = device
    /\ UNCHANGED <<device, calls>>
    /\ UNCHANGED lifeVars
    /\ UNCHANGED histVars

NextConfig ==
    \/ \E d \in DeviceNames : SetDriver(d)
    \/ RunCall

ConfigSpec == InitConfig /\ [][NextConfig]_vars

----------------------------------------------------------------------------
\* Environment

\* the device file appears or disappears
EnvSetDev(d) ==
    /\ Alive
    /\ UNCHANGED cfgVars
    /\ UNCHANGED driverAdded
    /\ d # dev
    /\ dev' = d
    /\ UNCHANGED <<signals, startQuit, signalRaised, exit, mainPc, mainTimer,
                   ret, retFrom, supPc, cur, cbGotQuit, watcher, exec, timer,
                   rmResult, osExit>>
    /\ UNCHANGED histVars

\* signal.Notify(signals, ...): the runtime sends without blocking and drops
\* the signal when the channel is full
DeliverSignal ==
    /\ Alive
    /\ UNCHANGED cfgVars
    /\ UNCHANGED driverAdded
    /\ sigDelivered' = IF sigDelivered < 2 THEN sigDelivered + 1 ELSE 2
    /\ signals' = IF Len(signals) < SignalsCap THEN Append(signals, "sig")
                                                ELSE signals
    /\ UNCHANGED <<dev, startQuit, signalRaised, exit, mainPc, mainTimer,
                   ret, retFrom, supPc, cur, cbGotQuit, watcher, exec, timer,
                   rmResult, osExit>>
    /\ UNCHANGED <<earlyReturn, obsAvail, obsAbsent, rmCalls, crossConsumed,
                   stopIdle, startedAfterSignal>>

----------------------------------------------------------------------------
\* The goroutine that called Run

\* no session has a watcher or an executor at work
NoSessionActive ==
    \A s \in Sessions : /\ watcher[s] \in {"none", "done"}
                        /\ exec[s] \in {"none", "done"}

\* Variant of MainRecvSignal: the receive does not block (no signal needed)
MainRecvSignal_NoWait ==
    /\ Alive
    /\ UNCHANGED cfgVars
    /\ UNCHANGED driverAdded
    /\ mainPc = "wait"
    /\ signals' = IF Len(signals) > 0 THEN Tail(signals) ELSE signals
    /\ mainPc' = "sendStartQuit"
    /\ UNCHANGED <<dev, startQuit, signalRaised, exit, mainTimer, ret,
                   retFrom, supPc, cur, cbGotQuit, watcher, exec, timer,
                   rmResult, osExit>>
    /\ UNCHANGED histVars

\* signal := <-signals
MainRecvSignal ==
    /\ Alive
    /\ UNCHANGED cfgVars
    /\ UNCHANGED driverAdded
    /\ mainPc = "wait"
    /\ Len(signals) > 0
    /\ signals' = Tail(signals)
    /\ mainPc' = "sendStartQuit"
    /\ UNCHANGED <<dev, startQuit, signalRaised, exit, mainTimer, ret,
                   retFrom, supPc, cur, cbGotQuit, watcher, exec, timer,
                   rmResult, osExit>>
    /\ UNCHANGED histVars

\* startQuit <- true
MainSendStartQuit ==
    /\ Alive
    /\ UNCHANGED cfgVars
    /\ UNCHANGED driverAdded
    /\ mainPc = "sendStartQuit"
    /\ Len(startQuit) < StartQuitCap
    /\ startQuit' = Append(startQuit, FromSignal)
    /\ mainPc' = "sendSignalRaised"
    /\ UNCHANGED <<dev, signals, signalRaised, exit, mainTimer, ret, retFrom,
                   supPc, cur, cbGotQuit, watcher, exec, timer, rmResult,
                   osExit>>
    /\ UNCHANGED histVars

\* Variant of MainSendSignalRaised: signalRaised is unbuffered, so the send
\* completes only when the supervisor is at its select
MainSendSignalRaised_Unbuffered ==
    /\ Alive
    /\ UNCHANGED cfgVars
    /\ UNCHANGED driverAdded
    /\ mainPc = "sendSignalRaised"
    /\ supPc = "top"
    /\ supPc' = "sendExit"
    /\ mainTimer' = "armed"
    /\ mainPc' = "select"
    /\ stopIdle' = FALSE
    /\ UNCHANGED <<dev, signals, startQuit, signalRaised, exit, ret, retFrom,
                   cur, cbGotQuit, watcher, exec, timer, rmResult, osExit>>
    /\ UNCHANGED <<sigDelivered, earlyReturn, obsAvail, obsAbsent, rmCalls,
                   crossConsumed, startedAfterSignal>>

\* signalRaised <- true; time.AfterFunc(time.Second*5, func() { exit <- 1 })
MainSendSignalRaised ==
    /\ Alive
    /\ UNCHANGED cfgVars
    /\ UNCHANGED driverAdded
    /\ mainPc = "sendSignalRaised"
    /\ Len(signalRaised) < SignalRaisedCap
    /\ signalRaised' = Append(signalRaised, TRUE)
    /\ mainTimer' = "armed"
    /\ mainPc' = "select"
    /\ stopIdle' = (/\ supPc = "poll" /\ dev = "absent"
                    /\ NoSessionActive /\ ~startedAfterSignal)
    /\ UNCHANGED <<dev, signals, startQuit, exit, ret, retFrom, supPc, cur,
                   cbGotQuit, watcher, exec, timer, rmResult, osExit>>
    /\ UNCHANGED <<sigDelivered, earlyReturn, obsAvail, obsAbsent, rmCalls,
                   crossConsumed, startedAfterSignal>>

\* the shutdown abort timer fires: its goroutine sends exit <- 1 (and stays
\* blocked on the send while the channel is full)
MainTimerFire ==
    /\ Alive
    /\ UNCHANGED cfgVars
    /\ UNCHANGED driverAdded
    /\ mainTimer = "armed"
    /\ Len(exit) < ExitCap
    /\ exit' = Append(exit, [rc |-> 1, from |-> "timer"])
    /\ mainTimer' = "fired"
    /\ UNCHANGED <<dev, signals, startQuit, signalRaised, mainPc, ret,
                   retFrom, supPc, cur, cbGotQuit, watcher, exec, timer,
                   rmResult, osExit>>
    /\ UNCHANGED histVars

\* case rc := <-exit: return rc
MainSelectExit ==
    /\ Alive
    /\ UNCHANGED cfgVars
    /\ UNCHANGED driverAdded
    /\ mainPc = "select"
    /\ Len(exit) > 0
    /\ ret' = Head(exit).rc
    /\ retFrom' = Head(exit).from
    /\ exit' = Tail(exit)
    /\ mainPc' = "returned"
    /\ UNCHANGED <<dev, signals, startQuit, signalRaised, mainTimer, supPc,
                   cur, cbGotQuit, watcher, exec, timer, rmResult, osExit>>
    /\ UNCHANGED histVars

\* case signal := <-signals: return 1
MainSelectSignal ==
    /\ Alive
    /\ UNCHANGED cfgVars
    /\ UNCHANGED driverAdded
    /\ mainPc = "select"
    /\ Len(signals) > 0
    /\ signals' = Tail(signals)
    /\ ret' = 1
    /\ retFrom' = "signal2"
    /\ mainPc' = "returned"
    /\ UNCHANGED <<dev, startQuit, signalRaised, exit, mainTimer, supPc, cur,
                   cbGotQuit, watcher, exec, timer, rmResult, osExit>>
    /\ UNCHANGED histVars

----------------------------------------------------------------------------
\* The supervisor goroutine (outer insert/removal loop)

\* Variant of SupSelect: the outer loop ends after the first session
SupSelect_ExitAfterSession ==
    /\ Alive
    /\ UNCHANGED cfgVars
    /\ UNCHANGED driverAdded
    /\ supPc = "top"
    /\ IF Len(signalRaised) > 0
       THEN /\ signalRaised' = Tail(signalRaised)
            /\ supPc' = IF Head(signalRaised) THEN "sendExit" ELSE "top"
       ELSE /\ signalRaised' = signalRaised
            /\ supPc' = IF cur >= 1 THEN "sendExit" ELSE "poll"
    /\ UNCHANGED <<dev, signals, startQuit, exit, mainPc, mainTimer, ret,
                   retFrom, cur, cbGotQuit, watcher, exec, timer, rmResult,
                   osExit>>
    /\ UNCHANGED histVars

\* for !done { select { case done = <-signalRaised: ... default: ... } }
SupSelect ==
    /\ Alive
    /\ UNCHANGED cfgVars
    /\ UNCHANGED driverAdded
    /\ supPc = "top"
    /\ IF Len(signalRaised) > 0
       THEN /\ signalRaised' = Tail(signalRaised)
            /\ supPc' = IF Head(signalRaised) THEN "sendExit" ELSE "top"
       ELSE /\ signalRaised' = signalRaised
            /\ supPc' = "poll"
    /\ UNCHANGED <<dev, signals, startQuit, exit, mainPc, mainTimer, ret,
                   retFrom, cur, cbGotQuit, watcher, exec, timer, rmResult,
                   osExit>>
    /\ UNCHANGED histVars

\* Variant of SupPoll: the session is started without the addDriver call
SupPoll_NoAddDriver ==
    /\ Alive
    /\ UNCHANGED cfgVars
    /\ UNCHANGED driverAdded
    /\ supPc = "poll"
    /\ cur < MaxSessions
    /\ pollUntilDeviceExistsStateEquals(TRUE)
    /\ obsAvail' = obsAvail + 1
    /\ cur' = cur + 1
    /\ watcher' = [watcher EXCEPT ![cur + 1] = "poll"]
    /\ startedAfterSignal' = (startedAfterSignal \/ mainPc # "wait")
    /\ exec' = [exec EXCEPT ![cur + 1] = "wait"]
    /\ cbGotQuit' = FALSE
    /\ supPc' = "enter"
    /\ UNCHANGED <<dev, signals, startQuit, signalRaised, exit, mainPc,
                   mainTimer, ret, retFrom, timer, rmResult, osExit>>
    /\ UNCHANGED <<sigDelivered, earlyReturn, obsAbsent, rmCalls,
                   crossConsumed, stopIdle>>

\* pollUntilDeviceExistsStateEquals(true) returns; go func() { watcher }();
\* C.addDriver(...); go func() { executor }()
SupPoll ==
    /\ Alive
    /\ UNCHANGED cfgVars
    /\ driverAdded' = TRUE
    /\ supPc = "poll"
    /\ cur < MaxSessions
    /\ pollUntilDeviceExistsStateEquals(TRUE)
    /\ obsAvail' = obsAvail + 1
    /\ cur' = cur + 1
    /\ watcher' = [watcher EXCEPT ![cur + 1] = "poll"]
    /\ startedAfterSignal' = (startedAfterSignal \/ mainPc # "wait")
    /\ exec' = [exec EXCEPT ![cur + 1] = "wait"]
    /\ cbGotQuit' = FALSE
    /\ supPc' = "enter"
    /\ UNCHANGED <<dev, signals, startQuit, signalRaised, exit, mainPc,
                   mainTimer, ret, retFrom, timer, rmResult, osExit>>
    /\ UNCHANGED <<sigDelivered, earlyReturn, obsAbsent, rmCalls,
                   crossConsumed, stopIdle>>

\* loop(self): the callback is invoked
SupEnterLoop ==
    /\ Alive
    /\ UNCHANGED cfgVars
    /\ UNCHANGED driverAdded
    /\ supPc = "enter"
    /\ supPc' = "loop"
    /\ UNCHANGED <<dev, signals, startQuit, signalRaised, exit, mainPc,
                   mainTimer, ret, retFrom, cur, cbGotQuit, watcher, exec,
                   timer, rmResult, osExit>>
    /\ UNCHANGED histVars

\* the presence poll of the supervisor samples the device while it is present
SupPollPresent == dev = "present" /\ SupPoll

\* the callback returns (with or without having received the quit signal)
CbReturn ==
    /\ Alive
    /\ UNCHANGED cfgVars
    /\ UNCHANGED driverAdded
    /\ supPc = "loop"
    /\ supPc' = "top"
    /\ earlyReturn' = (earlyReturn \/ ~cbGotQuit)
    /\ UNCHANGED <<dev, signals, startQuit, signalRaised, exit, mainPc,
                   mainTimer, ret, retFrom, cur, cbGotQuit, watcher, exec,
                   timer, rmResult, osExit>>
    /\ UNCHANGED <<sigDelivered, obsAvail, obsAbsent, rmCalls, crossConsumed,
                   stopIdle, startedAfterSignal>>

\* exit <- 1 (after the outer loop)
SupSendExit ==
    /\ Alive
    /\ UNCHANGED cfgVars
    /\ UNCHANGED driverAdded
    /\ supPc = "sendExit"
    /\ Len(exit) < ExitCap
    /\ exit' = Append(exit, [rc |-> 1, from |-> "loop"])
    /\ supPc' = "done"
    /\ UNCHANGED <<dev, signals, startQuit, signalRaised, mainPc, mainTimer,
                   ret, retFrom, cur, cbGotQuit, watcher, exec, timer,
                   rmResult, osExit>>
    /\ UNCHANGED histVars

----------------------------------------------------------------------------
\* The removal watcher of session s

\* Variant of WatcherPoll: the watcher polls with the wrong comparand
WatcherPoll_WrongComparand(s) ==
    /\ Alive
    /\ UNCHANGED cfgVars
    /\ UNCHANGED driverAdded
    /\ watcher[s] = "poll"
    /\ pollUntilDeviceExistsStateEquals(TRUE)
    /\ watcher' = [watcher EXCEPT ![s] = "send"]
    /\ obsAbsent' = obsAbsent
    /\ UNCHANGED <<dev, signals, startQuit, signalRaised, exit, mainPc,
                   mainTimer, ret, retFrom, supPc, cur, cbGotQuit, exec,
                   timer, rmResult, osExit>>
    /\ UNCHANGED <<sigDelivered, earlyReturn, obsAvail, rmCalls,
                   crossConsumed, stopIdle, startedAfterSignal>>

\* pollUntilDeviceExistsStateEquals(false) returns
WatcherPoll(s) ==
    /\ Alive
    /\ UNCHANGED cfgVars
    /\ UNCHANGED driverAdded
    /\ watcher[s] = "poll"
    /\ pollUntilDeviceExistsStateEquals(FALSE)
    /\ watcher' = [watcher EXCEPT ![s] = "send"]
    /\ obsAbsent' = obsAbsent + 1
    /\ UNCHANGED <<dev, signals, startQuit, signalRaised, exit, mainPc,
                   mainTimer, ret, retFrom, supPc, cur, cbGotQuit, exec,
                   timer, rmResult, osExit>>
    /\ UNCHANGED <<sigDelivered, earlyReturn, obsAvail, rmCalls,
                   crossConsumed, stopIdle, startedAfterSignal>>

\* Variant of WatcherSend: the watcher loops and polls again after its send
WatcherSend_Loops(s) ==
    /\ Alive
    /\ UNCHANGED cfgVars
    /\ UNCHANGED driverAdded
    /\ watcher[s] = "send"
    /\ Len(startQuit) < StartQuitCap
    /\ startQuit' = Append(startQuit, s)
    /\ watcher' = [watcher EXCEPT ![s] = "poll"]
    /\ UNCHANGED <<dev, signals, signalRaised, exit, mainPc, mainTimer, ret,
                   retFrom, supPc, cur, cbGotQuit, exec, timer, rmResult,
                   osExit>>
    /\ UNCHANGED histVars

\* startQuit <- true
WatcherSend(s) ==
    /\ Alive
    /\ UNCHANGED cfgVars
    /\ UNCHANGED driverAdded
    /\ watcher[s] = "send"
    /\ Len(startQuit) < StartQuitCap
    /\ startQuit' = Append(startQuit, s)
    /\ watcher' = [watcher EXCEPT ![s] = "done"]
    /\ UNCHANGED <<dev, signals, signalRaised, exit, mainPc, mainTimer, ret,
                   retFrom, supPc, cur, cbGotQuit, exec, timer, rmResult,
                   osExit>>
    /\ UNCHANGED histVars

----------------------------------------------------------------------------
\* The removal executor of session s

\* Variant of ExecRecv: removeDriver is called without arming the abort timer
ExecRecv_NoTimer(s) ==
    /\ Alive
    /\ UNCHANGED cfgVars
    /\ UNCHANGED driverAdded
    /\ exec[s] = "wait"
    /\ Len(startQuit) > 0
    /\ startQuit' = Tail(startQuit)
    /\ exec' = [exec EXCEPT ![s] = "removing"]
    /\ rmCalls' = [rmCalls EXCEPT ![s] = Inc(@)]
    /\ crossConsumed' = (crossConsumed \/ Head(startQuit) \notin {FromSignal, s})
    /\ UNCHANGED <<dev, signals, signalRaised, exit, mainPc, mainTimer, ret,
                   retFrom, supPc, cur, cbGotQuit, watcher, timer, rmResult,
                   osExit>>
    /\ UNCHANGED <<sigDelivered, earlyReturn, obsAvail, obsAbsent, stopIdle,
                   startedAfterSignal>>

\* Variant of ExecRecv: the executor signals quit without calling removeDriver
ExecRecv_QuitWithoutRemove(s) ==
    /\ Alive
    /\ UNCHANGED cfgVars
    /\ UNCHANGED driverAdded
    /\ exec[s] = "wait"
    /\ Len(startQuit) > 0
    /\ startQuit' = Tail(startQuit)
    /\ timer' = [timer EXCEPT ![s] = "armed"]
    /\ exec' = [exec EXCEPT ![s] = "sendQuit"]
    /\ UNCHANGED <<dev, signals, signalRaised, exit, mainPc, mainTimer, ret,
                   retFrom, supPc, cur, cbGotQuit, watcher, rmResult, osExit>>
    /\ UNCHANGED histVars

\* <-startQuit; abortTimer := time.AfterFunc(5*time.Second, func() { os.Exit(1) });
\* C.removeDriver(...) is called (a blocking call into the library)
ExecRecv(s) ==
    /\ Alive
    /\ UNCHANGED cfgVars
    /\ UNCHANGED driverAdded
    /\ exec[s] = "wait"
    /\ Len(startQuit) > 0
    /\ startQuit' = Tail(startQuit)
    /\ timer' = [timer EXCEPT ![s] = "armed"]
    /\ exec' = [exec EXCEPT ![s] = "removing"]
    /\ rmCalls' = [rmCalls EXCEPT ![s] = Inc(@)]
    /\ crossConsumed' = (crossConsumed \/ Head(startQuit) \notin {FromSignal, s})
    /\ UNCHANGED <<dev, signals, signalRaised, exit, mainPc, mainTimer, ret,
                   retFrom, supPc, cur, cbGotQuit, watcher, rmResult, osExit>>
    /\ UNCHANGED <<sigDelivered, earlyReturn, obsAvail, obsAbsent, stopIdle,
                   startedAfterSignal>>

\* Variant of ExecRemoveReturn: on success the abort timer is stopped before
\* quit is signalled
ExecRemoveReturn_StopFirst(s, ok) ==
    /\ Alive
    /\ UNCHANGED cfgVars
    /\ driverAdded' = (IF ok THEN FALSE ELSE driverAdded)
    /\ exec[s] = "removing"
    /\ rmResult' = [rmResult EXCEPT ![s] = IF ok THEN "ok" ELSE "fail"]
    /\ exec' = [exec EXCEPT ![s] = IF ok THEN "sendQuit" ELSE "failed"]
    /\ timer' = [timer EXCEPT ![s] = IF ok THEN "stopped" ELSE @]
    /\ UNCHANGED <<dev, signals, startQuit, signalRaised, exit, mainPc,
                   mainTimer, ret, retFrom, supPc, cur, cbGotQuit, watcher,
                   osExit>>
    /\ UNCHANGED histVars

\* Variant of ExecRemoveReturn: quit is signalled whatever removeDriver says
ExecRemoveReturn_QuitOnFailure(s, ok) ==
    /\ Alive
    /\ UNCHANGED cfgVars
    /\ driverAdded' = (IF ok THEN FALSE ELSE driverAdded)
    /\ exec[s] = "removing"
    /\ rmResult' = [rmResult EXCEPT ![s] = IF ok THEN "ok" ELSE "fail"]
    /\ exec' = [exec EXCEPT ![s] = "sendQuit"]
    /\ UNCHANGED <<dev, signals, startQuit, signalRaised, exit, mainPc,
                   mainTimer, ret, retFrom, supPc, cur, cbGotQuit, watcher,
                   timer, osExit>>
    /\ UNCHANGED histVars

\* Variant of ExecRemoveReturn: the abort timer is stopped on failure too
ExecRemoveReturn_StopOnFailure(s, ok) ==
    /\ Alive
    /\ UNCHANGED cfgVars
    /\ driverAdded' = (IF ok THEN FALSE ELSE driverAdded)
    /\ exec[s] = "removing"
    /\ rmResult' = [rmResult EXCEPT ![s] = IF ok THEN "ok" ELSE "fail"]
    /\ exec' = [exec EXCEPT ![s] = IF ok THEN "sendQuit" ELSE "failed"]
    /\ timer' = [timer EXCEPT ![s] = IF ok THEN @ ELSE "stopped"]
    /\ UNCHANGED <<dev, signals, startQuit, signalRaised, exit, mainPc,
                   mainTimer, ret, retFrom, supPc, cur, cbGotQuit, watcher,
                   osExit>>
    /\ UNCHANGED histVars

\* C.removeDriver(...) returns ok (it may also never return: the executor
\* then stays in "removing");
\* if ok { self.quit <- true ... } else { Printf("removeDriver call failed") }
ExecRemoveReturn(s, ok) ==
    /\ Alive
    /\ UNCHANGED cfgVars
    /\ driverAdded' = (IF ok THEN FALSE ELSE driverAdded)
    /\ exec[s] = "removing"
    /\ rmResult' = [rmResult EXCEPT ![s] = IF ok THEN "ok" ELSE "fail"]
    /\ exec' = [exec EXCEPT ![s] = IF ok THEN "sendQuit" ELSE "failed"]
    /\ UNCHANGED <<dev, signals, startQuit, signalRaised, exit, mainPc,
                   mainTimer, ret, retFrom, supPc, cur, cbGotQuit, watcher,
                   timer, osExit>>
    /\ UNCHANGED histVars

\* self.quit <- true meets a receive on QuitSignal() by the running callback
\* (the channel is unbuffered: make(chan bool, 0))
CbRecvQuit(s) ==
    /\ Alive
    /\ UNCHANGED cfgVars
    /\ UNCHANGED driverAdded
    /\ supPc = "loop"
    /\ ~cbGotQuit
    /\ exec[s] = "sendQuit"
    /\ exec' = [exec EXCEPT ![s] = "stop"]
    /\ cbGotQuit' = TRUE
    /\ UNCHANGED <<dev, signals, startQuit, signalRaised, exit, mainPc,
                   mainTimer, ret, retFrom, supPc, cur, watcher, timer,
                   rmResult, osExit>>
    /\ UNCHANGED histVars

\* Variant of ExecStopTimer: the executor loops and waits for the next request
ExecStopTimer_Loops(s) ==
    /\ Alive
    /\ UNCHANGED cfgVars
    /\ UNCHANGED driverAdded
    /\ exec[s] = "stop"
    /\ timer' = [timer EXCEPT ![s] = IF @ = "armed" THEN "stopped" ELSE @]
    /\ exec' = [exec EXCEPT ![s] = "wait"]
    /\ UNCHANGED <<dev, signals, startQuit, signalRaised, exit, mainPc,
                   mainTimer, ret, retFrom, supPc, cur, cbGotQuit, watcher,
                   rmResult, osExit>>
    /\ UNCHANGED histVars

\* abortTimer.Stop()
ExecStopTimer(s) ==
    /\ Alive
    /\ UNCHANGED cfgVars
    /\ UNCHANGED driverAdded
    /\ exec[s] = "stop"
    /\ timer' = [timer EXCEPT ![s] = IF @ = "armed" THEN "stopped" ELSE @]
    /\ exec' = [exec EXCEPT ![s] = "done"]
    /\ UNCHANGED <<dev, signals, startQuit, signalRaised, exit, mainPc,
                   mainTimer, ret, retFrom, supPc, cur, cbGotQuit, watcher,
                   rmResult, osExit>>
    /\ UNCHANGED histVars

\* Variant of ExecTimerFire: the timer only acts while the removal has not
\* succeeded
ExecTimerFire_RemovalOnly(s) ==
    /\ Alive
    /\ UNCHANGED cfgVars
    /\ UNCHANGED driverAdded
    /\ timer[s] = "armed"
    /\ exec[s] \in {"removing", "failed"}
    /\ timer' = [timer EXCEPT ![s] = "fired"]
    /\ osExit' = TRUE
    /\ UNCHANGED <<dev, signals, startQuit, signalRaised, exit, mainPc,
                   mainTimer, ret, retFrom, supPc, cur, cbGotQuit, watcher,
                   exec, rmResult>>
    /\ UNCHANGED histVars

\* the executor's abort timer fires: os.Exit(1)
ExecTimerFire(s) ==
    /\ Alive
    /\ UNCHANGED cfgVars
    /\ UNCHANGED driverAdded
    /\ timer[s] = "armed"
    /\ timer' = [timer EXCEPT ![s] = "fired"]
    /\ osExit' = TRUE
    /\ UNCHANGED <<dev, signals, startQuit, signalRaised, exit, mainPc,
                   mainTimer, ret, retFrom, supPc, cur, cbGotQuit, watcher,
                   exec, rmResult>>
    /\ UNCHANGED histVars

----------------------------------------------------------------------------
Next ==
    \/ \E d \in DevStates : EnvSetDev(d)
    \/ DeliverSignal
    \/ MainRecvSignal
    \/ MainSendStartQuit
    \/ MainSendSignalRaised
    \/ MainTimerFire
    \/ MainSelectExit
    \/ MainSelectSignal
    \/ SupSelect
    \/ SupPoll
    \/ SupEnterLoop
    \/ CbReturn
    \/ SupSendExit
    \/ \E s \in Sessions : WatcherPoll(s)
    \/ \E s \in Sessions : WatcherSend(s)
    \/ \E s \in Sessions : ExecRecv(s)
    \/ \E s \in Sessions : \E ok \in BOOLEAN : ExecRemoveReturn(s, ok)
    \/ \E s \in Sessions : CbRecvQuit(s)
    \/ \E s \in Sessions : ExecStopTimer(s)
    \/ \E s \in Sessions : ExecTimerFire(s)

Spec == Init /\ [][Next]_vars

\* Fairness: the Go scheduler runs every runnable goroutine and an armed timer
\* fires.  The device, the OS signals, the callback and the return of
\* removeDriver are not constrained.
Fairness ==
    /\ WF_vars(MainRecvSignal)
    /\ WF_vars(MainSendStartQuit)
    /\ WF_vars(MainSendSignalRaised)
    /\ WF_vars(MainTimerFire)
    /\ WF_vars(MainSelectExit \/ MainSelectSignal)
    /\ WF_vars(SupSelect)
    /\ WF_vars(SupEnterLoop)
    /\ WF_vars(SupSendExit)
    /\ \A s \in Sessions : WF_vars(WatcherSend(s))
    /\ \A s \in Sessions : WF_vars(ExecRecv(s))
    /\ \A s \in Sessions : WF_vars(ExecStopTimer(s))
    /\ \A s \in Sessions : WF_vars(ExecTimerFire(s))

FairSpec == Init /\ [][Next]_vars /\ Fairness

\* FairSpec, and the supervisor's presence poll (one sample a second) sees a
\* device that stays present
FairPollSpec == Init /\ [][Next]_vars /\ Fairness /\ WF_vars(SupPollPresent)

TypeOK ==
    /\ dev \in DevStates
    /\ Len(signals) <= SignalsCap
    /\ Len(startQuit) <= StartQuitCap
    /\ Len(signalRaised) <= SignalRaisedCap
    /\ Len(exit) <= ExitCap
    /\ cur \in 0..MaxSessions
    /\ ret \in {-1, 0, 1}

----------------------------------------------------------------------------
\* Auxiliary definitions for the properties

RECURSIVE SumTo(_, _)
SumTo(f, n) == IF n = 0 THEN 0 ELSE f[n] + SumTo(f, n - 1)

\* removeDriver calls over all sessions
RemoveCount == SumTo(rmCalls, MaxSessions)

\* Run has returned or the process has exited
Terminated == mainPc = "returned" \/ osExit

\* ... with a non-zero status
TerminatedNonZero == osExit \/ (mainPc = "returned" /\ ret # 0)

\* the removal executor of session s has signalled completion: removeDriver
\* returned success and the quit signal was delivered
SessionCompleted(s) == rmResult[s] = "ok" /\ exec[s] \in {"stop", "done"}

\* no earlier session is unfinished while a later one exists
NoOverlap == \A s \in Sessions : s < cur => SessionCompleted(s)

\* OS signals Run has received from its signals channel
SignalsReceived ==
    (IF mainPc # "wait" THEN 1 ELSE 0) + (IF retFrom = "signal2" THEN 1 ELSE 0)

\* so far every callback returned only after receiving the quit signal
CallbackWellBehaved == ~earlyReturn

----------------------------------------------------------------------------
\* C1: once Run has received a first OS signal, its sends on startQuit and
\* signalRaised complete (the shutdown abort timer gets armed) and Run
\* eventually returns or the process exits, whatever removeDriver, the
\* callback and the device do.
C1_SignalLeadsToTermination ==
    /\ (mainPc # "wait") ~> (mainTimer # "off" \/ osExit)
    /\ (mainPc # "wait") ~> Terminated

\* Run returned through its abort timer while a removeDriver call hangs
C1_Witness ==
    /\ mainPc = "returned"
    /\ retFrom = "timer"
    /\ \E s \in Sessions : exec[s] = "removing"

\* C2 (as claimed): Run returns 0 on the graceful path (the session was torn
\* down by a successful removeDriver after the stop signal and the outer loop
\* raised exit) and 1 on a forced path (abort timer or second signal).
C2_ReturnValue ==
    mainPc = "returned" =>
        /\ (/\ retFrom = "loop"
            /\ cur >= 1 /\ ~startedAfterSignal /\ SessionCompleted(cur))
           => ret = 0
        /\ retFrom \in {"timer", "signal2"} => ret = 1

\* C3: Run returns only after an OS signal was received; without a signal
\* the process ends only through an executor's abort timer.
C3_ReturnNeedsSignal ==
    /\ mainPc = "returned" => sigDelivered >= 1
    /\ (osExit /\ sigDelivered = 0) => \E s \in Sessions : timer[s] = "fired"

\* no signal, a callback has returned and a removal has completed, and Run
\* is still waiting
C3_Witness ==
    /\ sigDelivered = 0
    /\ mainPc = "wait"
    /\ supPc = "top"
    /\ \E s \in Sessions : exec[s] = "done"

\* C4 (as claimed): if the stop is raised while no session is active (the
\* supervisor waits for the device), no session is started after it.
C4_NoSessionAfterIdleStop == stopIdle => ~startedAfterSignal

\* C5: per session the teardown sequence (receive on startQuit, abort timer,
\* removeDriver call) runs at most once, and exactly once when the executor
\* has got past its receive.
C5_SingleTeardown ==
    \A s \in Sessions :
        /\ rmCalls[s] <= 1
        /\ exec[s] \in {"removing", "failed", "sendQuit", "stop", "done"}
           => rmCalls[s] = 1

\* the watcher of session 1 and the signal handler both raised a quit request
\* during session 1, and the executor of session 1 has finished
C5_Witness ==
    /\ cur = 1
    /\ watcher[1] = "done"
    /\ mainPc \in {"sendSignalRaised", "select"}
    /\ exec[1] = "done"
    /\ rmCalls[1] = 1
    /\ Len(startQuit) = 1

\* C6 (as claimed): for every behaviour of the callback, no session is
\* started before the previous session's executor has signalled completion.
C6_NoOverlapAnyCallback == NoOverlap

\* C6 (amended): provided every callback returns only after receiving the quit
\* signal, no session is started before the previous one's executor has
\* signalled completion.
C6_NoOverlapWellBehaved == CallbackWellBehaved => NoOverlap

\* a second session was started under well-behaved callbacks
C6_Witness == CallbackWellBehaved /\ cur = 2 /\ exec[2] = "wait"

\* no signal so far, no removeDriver failure, well-behaved callbacks
C7_Pre ==
    /\ sigDelivered = 0
    /\ CallbackWellBehaved
    /\ \A s \in Sessions : rmResult[s] # "fail"

\* C7: with no signal, removeDriver succeeding and a well-behaved callback,
\* there is one session (addDriver, callback) per observed transition to
\* available and one removeDriver per observed transition to absent, each
\* session's removal answering its own watcher.
C7_OneSessionPerTransition ==
    C7_Pre =>
        /\ cur = obsAvail
        /\ RemoveCount <= obsAbsent /\ obsAbsent <= RemoveCount + 1
        /\ obsAbsent <= obsAvail /\ obsAvail <= obsAbsent + 1
        /\ \A s \in Sessions :
              rmCalls[s] >= 1 => (rmCalls[s] = 1 /\ watcher[s] = "done" /\ s <= cur)
        /\ ~crossConsumed
        /\ supPc \in {"top", "poll"} => (RemoveCount = obsAbsent /\ obsAbsent = obsAvail)

\* two complete insert/remove cycles
C7_Witness ==
    /\ C7_Pre
    /\ supPc = "top"
    /\ obsAvail = 2 /\ obsAbsent = 2 /\ RemoveCount = 2

\* C8 (as claimed): once removeDriver has failed, the supervisor never
\* proceeds to another session.
C8_NoNewSessionAfterFailure ==
    [][(\E s \in Sessions : exec[s] = "failed") => cur' = cur]_vars

\* C8 (amended): if removeDriver returns failure or does not return, the
\* executor does not signal quit and does not cancel its abort timer, and the
\* process eventually terminates with a non-zero status; provided every
\* callback returns only after receiving the quit signal, the supervisor does
\* not proceed to another session.
C8_RemovalFailureIsFatal ==
    /\ [][\A s \in Sessions :
            /\ exec[s] = "failed"
               => (exec'[s] = "failed" /\ timer'[s] \in {"armed", "fired"})
            /\ exec[s] = "removing"
               => (/\ exec'[s] \in {"removing", "failed", "sendQuit"}
                   /\ timer'[s] \in {"armed", "fired"})]_vars
    /\ \A s \in Sessions :
          (exec[s] \in {"removing", "failed"})
              ~> (exec[s] = "sendQuit" \/ TerminatedNonZero)
    /\ [][((\E s \in Sessions : exec[s] \in {"removing", "failed"})
              /\ CallbackWellBehaved) => cur' = cur]_vars

\* removeDriver failed under a well-behaved callback and the abort timer has
\* ended the process
C8_Witness ==
    /\ CallbackWellBehaved
    /\ osExit
    /\ \E s \in Sessions : exec[s] = "failed" /\ timer[s] = "fired"

\* C9 (as claimed): the second of two OS signals is never lost, and Run then
\* returns 1 through the second-signal case of its select.
C9_SecondSignalFastPath ==
    /\ sigDelivered >= 2 => SignalsReceived + Len(signals) >= 2
    /\ (mainPc = "returned" /\ sigDelivered >= 2) => (retFrom = "signal2" /\ ret = 1)

\* no signal so far and well-behaved callbacks
C10_Pre == sigDelivered = 0 /\ CallbackWellBehaved

\* C10: with no signal and a well-behaved callback, no watcher or executor
\* of an earlier session is still waiting, startQuit holds no request of an
\* earlier session (none at all when a session has just been activated), and
\* at most one watcher and one executor are waiting.
C10_NoLeak ==
    C10_Pre =>
        /\ \A s \in Sessions :
              s < cur => (watcher[s] = "done" /\ exec[s] \in {"stop", "done"})
        /\ \A i \in 1..Len(startQuit) : startQuit[i] = cur
        /\ supPc = "loop" /\ exec[cur] = "wait" /\ watcher[cur] = "poll"
              => startQuit = <<>>
        /\ Cardinality({s \in Sessions : watcher[s] \in {"poll", "send"}}) <= 1
        /\ Cardinality({s \in Sessions :
                           exec[s] \in {"wait", "removing", "sendQuit", "failed"}}) <= 1

\* the second session has just been activated after a full first cycle
C10_Witness ==
    /\ C10_Pre
    /\ cur = 2
    /\ exec[2] = "wait" /\ watcher[2] = "poll"
    /\ exec[1] = "done"

\* every driver added by addDriver so far was removed by a removeDriver call
\* that returned success
AllDriversRemoved == \A s \in Sessions : s <= cur => rmResult[s] = "ok"

\* Run returned the value the outer loop sent on exit
GracefulReturn == mainPc = "returned" /\ retFrom = "loop"

\* C11 (as claimed): whenever Run returns with the exit value produced by the
\* outer loop, every driver added by addDriver has been removed by a
\* removeDriver call that returned success.
C11_RemovedBeforeGracefulExit == GracefulReturn => AllDriversRemoved

\* C11 (amended): provided every callback returns only after receiving the
\* quit signal, whenever Run returns with the exit value produced by the outer
\* loop, every driver added has been removed by a successful removeDriver.
C11_RemovedIfWellBehaved ==
    (CallbackWellBehaved /\ GracefulReturn) => AllDriversRemoved

\* a graceful return after a session that was torn down by the signal
C11_Witness ==
    /\ CallbackWellBehaved
    /\ GracefulReturn
    /\ cur >= 1
    /\ rmResult[cur] = "ok"

\* C12: while a removeDriver call is in flight (and the process is alive) the
\* abort timer of the same executor is armed, and it is the only one that
\* executor has armed; no removeDriver call is made without its timer, and no
\* executor timer exists without its call.
C12_TimerPairedWithRemoval ==
    \A s \in Sessions :
        /\ (exec[s] = "removing" /\ ~osExit)
           => (timer[s] = "armed" /\ rmCalls[s] = 1)
        /\ rmCalls[s] >= 1 => timer[s] # "off"
        /\ timer[s] # "off" => rmCalls[s] = 1

\* the second session's removeDriver call is in flight under its own timer,
\* the first session's timer having been stopped
C12_Witness ==
    /\ ~osExit
    /\ cur = 2
    /\ exec[2] = "removing" /\ timer[2] = "armed"
    /\ exec[1] = "done" /\ timer[1] = "stopped"

\* C13 (as claimed): after a successful removeDriver the abort timer is
\* cancelled before quit is signalled, so it is not armed while the executor
\* waits for the event loop to accept the quit signal.
C13_TimerCancelledBeforeQuit ==
    \A s \in Sessions : exec[s] = "sendQuit" => timer[s] # "armed"

\* C13 (amended): after a successful removeDriver the executor first signals
\* quit and cancels the abort timer only once the event loop has accepted the
\* signal: the timer is armed while the executor waits on the send, and it is
\* stopped only by an executor whose quit was accepted.
C13_QuitBeforeTimerCancel ==
    /\ \A s \in Sessions :
          (exec[s] = "sendQuit" /\ ~osExit) => timer[s] = "armed"
    /\ \A s \in Sessions :
          timer[s] = "stopped" => (exec[s] = "done" /\ rmResult[s] = "ok")
    /\ \A s \in Sessions :
          exec[s] = "stop" => (rmResult[s] = "ok" /\ timer[s] \in {"armed", "fired"})

\* a session whose quit was accepted and whose timer was then stopped
C13_Witness ==
    /\ ~osExit
    /\ supPc = "loop" /\ cbGotQuit
    /\ exec[cur] = "done" /\ timer[cur] = "stopped" /\ rmResult[cur] = "ok"

\* C14: when removeDriver has succeeded and the executor waits for the event
\* loop to accept the quit signal, its abort timer stays armed, and unless the
\* signal is accepted the process eventually terminates with status 1; with
\* no OS signal that termination is the abort timer's os.Exit(1).
C14_TimerGuardsQuitPropagation ==
    /\ [][\A s \in Sessions :
            (exec[s] = "sendQuit" /\ exec'[s] = "sendQuit")
                => timer'[s] \in {"armed", "fired"}]_vars
    /\ \A s \in Sessions :
          (exec[s] = "sendQuit")
              ~> (exec[s] \in {"stop", "done"} \/ TerminatedNonZero)
    /\ [](\A s \in Sessions :
            (exec[s] = "sendQuit" /\ Terminated /\ sigDelivered = 0)
                => (osExit /\ \E t \in Sessions : timer[t] = "fired"))

\* removeDriver succeeded, no callback accepted the quit signal, no OS signal
\* was delivered, and the executor's abort timer has ended the process
C14_Witness ==
    /\ sigDelivered = 0
    /\ osExit
    /\ \E s \in Sessions :
          exec[s] = "sendQuit" /\ rmResult[s] = "ok" /\ timer[s] = "fired"

\* Run has sent its quit request and an executor has consumed it, no session
\* was started since Run received the signal, and every callback so far
\* returned only on quit: the signal was received while session cur was
\* active and that session is being, or has been, torn down for it
SignalDuringSession ==
    /\ mainPc \in {"sendSignalRaised", "select"}
    /\ \A i \in 1..Len(startQuit) : startQuit[i] # FromSignal
    /\ cur >= 1
    /\ ~startedAfterSignal
    /\ CallbackWellBehaved

\* C15 (as claimed): when the first OS signal is received while a session is
\* active, no further session is started after the signal: once that session
\* is torn down the outer loop exits.
C15_NoSessionAfterSignal == [][SignalDuringSession => cur' = cur]_vars

\* C16: with no stop requested the outer loop never ends; after a session
\* whose removal completed (removeDriver succeeded, quit accepted, timer
\* stopped) and whose callback returned, the supervisor gets back to the
\* presence wait (unless a signal arrives or an abort timer still pending
\* from an earlier session ends the process); and from the presence wait, if
\* the device is available, a new session is started (addDriver, callback)
\* unless the device goes away again or the process ends.
C16_ResumesPresenceWait ==
    /\ [](mainPc = "wait" => (supPc \notin {"sendExit", "done"} /\ exit = <<>>))
    /\ (/\ supPc = "top" /\ mainPc = "wait" /\ CallbackWellBehaved
        /\ cur >= 1 /\ exec[cur] = "done")
          ~> (supPc = "poll" \/ mainPc # "wait" \/ osExit)
    /\ \A n \in 0..(MaxSessions - 1) :
          (supPc = "poll" /\ cur = n /\ dev = "present")
              ~> ((cur = n + 1 /\ exec[n + 1] # "none")
                    \/ dev = "absent" \/ Terminated)

\* a second session runs after a complete first cycle, no signal delivered
C16_Witness ==
    /\ sigDelivered = 0
    /\ CallbackWellBehaved
    /\ obsAvail = 2 /\ obsAbsent = 1
    /\ timer[1] = "stopped" /\ rmResult[1] = "ok"
    /\ supPc = "loop" /\ cur = 2

\* the executor of session s calls removeDriver in this step
RemoveIssued(s) == exec[s] = "wait" /\ exec'[s] = "removing"

\* the steps an executor may take, in order
ExecOrder ==
    {<<"none", "wait">>, <<"wait", "removing">>, <<"removing", "sendQuit">>,
     <<"removing", "failed">>, <<"sendQuit", "stop">>, <<"stop", "done">>}

\* C17 (as claimed): every session goes through addDriver, the callback
\* running, the quit request consumed, removeDriver, in that order: when
\* removeDriver is issued, the session's addDriver has been called, its
\* callback has been invoked, and the driver has not already been removed.
C17_SessionOrder ==
    [][\A s \in Sessions :
          RemoveIssued(s) =>
              /\ s <= cur
              /\ ~(s = cur /\ supPc = "enter")
              /\ driverAdded]_vars

\* C17 (amended): every session's executor goes through quit request
\* consumed, removeDriver, then quit signalled and timer stopped, or failed,
\* with no step skipped or reordered, and only after the addDriver call of
\* its own session; removeDriver is issued at most once per session; provided
\* every callback returns only after receiving the quit signal, it is never
\* issued for a driver that has already been removed.  (The invocation of the
\* callback is not ordered with the consumption of the quit request.)
C17_AddBeforeRemove ==
    /\ [][\A s \in Sessions :
            exec'[s] # exec[s] => <<exec[s], exec'[s]>> \in ExecOrder]_vars
    /\ [][\A s \in Sessions :
            RemoveIssued(s) =>
                /\ s <= cur
                /\ rmCalls[s] = 0
                /\ CallbackWellBehaved => driverAdded]_vars
    /\ [](\A s \in Sessions : s > cur => (exec[s] = "none" /\ rmCalls[s] = 0))

\* a first session went through all its steps and its driver is removed
C17_Witness ==
    /\ CallbackWellBehaved
    /\ cur = 1 /\ supPc = "top"
    /\ watcher[1] = "done" /\ exec[1] = "done"
    /\ rmResult[1] = "ok" /\ ~driverAdded

\* C18 (as claimed): a quit request is never carried over between sessions:
\* the request an executor consumes was raised by the watcher of its own
\* session or by the signal handler, never by the watcher of another session,
\* also when every callback returns only after receiving the quit signal.
C18_NoCarryOver ==
    [][\A s \in Sessions :
          (RemoveIssued(s) /\ CallbackWellBehaved)
              => Head(startQuit) \in {s, FromSignal}]_vars

\* C19: existence is classified as absent exactly for a not-found error and
\* as present for success and every other error; a presence wait returns only
\* when an answer os.Stat can give classifies as the desired state, so the
\* watcher's wait for absence does not return while the device is present
\* (every answer then classifies as present), and it keeps polling instead.
C19_PresenceWait ==
    /\ [](\A stat \in StatAnswers : deviceExists(stat) = (stat # "notfound"))
    /\ [][\A s \in Sessions :
            (watcher[s] = "poll" /\ dev = "present") => watcher'[s] = "poll"]_vars
    /\ [][\A s \in Sessions :
            (watcher[s] = "poll" /\ watcher'[s] # "poll")
                => \E stat \in StatResults : ~deviceExists(stat)]_vars
    /\ [][(supPc = "poll" /\ supPc' # "poll")
            => \E stat \in StatResults : deviceExists(stat)]_vars

\* the supervisor's wait for presence and then the watcher's wait for absence
\* have returned, the device being absent
C19_Witness ==
    /\ dev = "absent"
    /\ obsAvail = 1 /\ obsAbsent = 1
    /\ supPc = "loop"
    /\ watcher[1] = "send"

\* C20 (as claimed): the device identity Run uses never changes once Run has
\* been called, and after any sequence of SetDriver calls ending in
\* SetDriver("") the device identity is the default driver name.
C20_EmptyMapsToDefault ==
    /\ [][runDevice # NotStarted => runDevice' = runDevice]_vars
    /\ []((calls # <<>> /\ calls[Len(calls)] = "")
             => device = defaultDriverName)

====
